---- MODULE Spec2Model ----
(***************************************************************************)
(* dd-house (server.go): the mapping of a Datadog agent submission into    *)
(* InfluxDB series, the container bootstrap and the event writer.          *)
(*                                                                         *)
(* Strings are sequences of one-character strings, so that "_"+k,          *)
(* strings.SplitN and group+"."+field are computed as the code computes    *)
(* them.  A Go map is a function; the order in which `range` visits it is  *)
(* chosen by the action that calls the mapper.                             *)
(***************************************************************************)
EXTENDS Naturals, Integers, Sequences, FiniteSets, TLC

VARIABLES
    pc,          \* "call" before and "done" after the call of a mapper
    args,        \* the function called and its arguments
    ret,         \* what the call returned
    containers,  \* the databases of the sink, in the order of its listing
    boot,        \* per instance: where CreateDBIfNotExists is, and its calls
    conn,        \* per request: where its handler is, and what it answered
    eventsChan,  \* the buffered channel of marshalled events
    sent,        \* every event sent on eventsChan, in the order of the sends
    writer,      \* writeEvents: its position, the event it holds, its writes
    eventLog,    \* the events appended to the event log file
    pushes,      \* per request: the PushMetrics goroutine started for it
    posts,       \* per request: the calls of http.Post(seriesUrl) made for it
    stored       \* the requests whose batch the sink stored

callVars == <<pc, args, ret>>
bootVars == <<containers, boot>>
serverVars == <<conn, eventsChan, sent, writer, eventLog, pushes, posts, stored>>
vars == <<pc, args, ret, containers, boot, conn, eventsChan, sent, writer,
          eventLog, pushes, posts, stored>>

(***************************************************************************)
(* Bounds                                                                  *)
(***************************************************************************)
MaxPathLen == 5
MaxSeries == 3
MaxSamples == 3
MaxDisks == 2
MaxProcs == 3
MaxCalls == 2
NumInstances == 2
NumHandlers == 2
MaxEvents == 3
MaxSent == 6
MaxWriteErrors == 1

(***************************************************************************)
(* String literals of the source                                           *)
(***************************************************************************)
time == <<"t", "i", "m", "e">>
hostname == <<"h", "o", "s", "t", "n", "a", "m", "e">>
value == <<"v", "a", "l", "u", "e">>
EmptyStr == <<>>
\* the nil interface value: not a string of the program
Nil == <<"<nil>">>
NoRet == [panic |-> FALSE, metrics |-> <<>>]
Panic == [panic |-> TRUE, metrics |-> <<>>]
Returned(metrics) == [panic |-> FALSE, metrics |-> metrics]

(***************************************************************************)
(* Library functions used by the source                                    *)
(***************************************************************************)
\* strings.Index for a one-character separator; 0 when absent
Index(s, c) ==
    IF \E i \in 1..Len(s) : s[i] = c
    THEN CHOOSE i \in 1..Len(s) : s[i] = c /\ \A j \in 1..(i - 1) : s[j] # c
    ELSE 0

\* strings.LastIndex for a one-character separator; 0 when absent
LastIndex(s, c) ==
    IF \E i \in 1..Len(s) : s[i] = c
    THEN CHOOSE i \in 1..Len(s) : s[i] = c /\ \A j \in (i + 1)..Len(s) : s[j] # c
    ELSE 0

\* strings.SplitN(s, sep, n) for n > 0: at most n pieces, the last unsplit
RECURSIVE SplitN(_, _, _)
SplitN(s, sep, n) ==
    IF n = 1 \/ Index(s, sep) = 0
    THEN <<s>>
    ELSE <<SubSeq(s, 1, Index(s, sep) - 1)>>
             \o SplitN(SubSeq(s, Index(s, sep) + 1, Len(s)), sep, n - 1)

\* uint64(f * 1000) for a non-negative number of seconds
Millis(sec) == sec * 1000

\* the visiting orders `range` may take over the map m, as key/value pairs
Orderings(m) ==
    LET n == Cardinality(DOMAIN m)
        inj == {s \in [1..n -> DOMAIN m] :
                   \A i, j \in 1..n : i # j => s[i] # s[j]}
    IN  {[i \in 1..n |-> <<s[i], m[s[i]]>>] : s \in inj}

(***************************************************************************)
(* GroupMetric                                                             *)
(***************************************************************************)
\* split[1] is read without a length check
GroupMetricPanics(name) == Len(SplitN(name, ".", 3)) < 2

GroupMetricFirstTwo(name) ==
    LET split == SplitN(name, ".", 3)
    IN  <<split[1], split[2]>>

GroupMetric(name) ==
    LET split == SplitN(name, ".", 3)
    IN  IF Len(split) > 2
        THEN <<split[1] \o <<".">> \o split[2], split[3]>>
        ELSE <<split[1], split[2]>>

(***************************************************************************)
(* NewMetricGroup: values and tags are the maps in visiting order          *)
(***************************************************************************)
Metric(name, columns, points) ==
    [name |-> name, columns |-> columns, points |-> points]

RECURSIVE AddValuesNoRename(_, _, _)
AddValuesNoRename(cr, values, i) ==
    IF i > Len(values) THEN cr
    ELSE AddValuesNoRename(<<Append(cr[1], values[i][1]),
                             Append(cr[2], values[i][2])>>, values, i + 1)

\* the loop over values (lines 152-159): cr = <<columns, points[0]>>
RECURSIVE AddValues(_, _, _)
AddValues(cr, values, i) ==
    IF i > Len(values) THEN cr
    ELSE LET k == values[i][1]
             v == values[i][2]
             col == IF k = time \/ k = hostname THEN <<"_">> \o k ELSE k
         IN  AddValues(<<Append(cr[1], col), Append(cr[2], v)>>, values, i + 1)

\* the loop over tags (lines 163-174)
RECURSIVE AddTags(_, _, _)
AddTags(cr, tags, i) ==
    IF i > Len(tags) THEN cr
    ELSE LET k == tags[i][1]
             v == tags[i][2]
         IN  IF k = hostname
             THEN AddTags(<<cr[1], [cr[2] EXCEPT ![2] = v]>>, tags, i + 1)
             ELSE LET col == IF k = time THEN <<"_">> \o k ELSE k
                  IN  AddTags(<<Append(cr[1], col), Append(cr[2], v)>>,
                              tags, i + 1)

NewMetricGroup(host, name, timestamp, values, tags) ==
    LET base == <<<<time, hostname>>, <<timestamp, host>>>>
        cr == AddTags(AddValues(base, values, 1), tags, 1)
    IN  Metric(name, cr[1], <<cr[2]>>)

(***************************************************************************)
(* mapStatsd                                                               *)
(***************************************************************************)
colons == <<":">>
metric_interval == <<"m", "e", "t", "r", "i", "c", "_", "i", "n", "t", "e", "r", "v", "a", "l">>
metric_type == <<"m", "e", "t", "r", "i", "c", "_", "t", "y", "p", "e">>
statsdPrefix == <<"s", "t", "a", "t", "s", "d", ".">>

\* lines 220-228: the time in milliseconds, then host, interval and type
StatsdPoints(metric, host) ==
    [i \in 1..Len(metric.Points) |->
        [metric.Points[i] EXCEPT ![1] = Millis(@)]
            \o <<host, metric.Interval, metric.Type>>]

RECURSIVE StatsdTagsAllColumns(_, _, _)
StatsdTagsAllColumns(cp, tags, t) ==
    IF t > Len(tags) \/ cp.panic THEN cp
    ELSE LET split == SplitN(tags[t], ":", 2)
         IN  IF Len(split) < 2 /\ Len(cp.points) > 0
             THEN [cp EXCEPT !.panic = TRUE]
             ELSE StatsdTagsAllColumns(
                    [cp EXCEPT
                        !.columns = Append(@,
                            IF split[1] = time \/ split[1] = value
                            THEN <<"_">> \o split[1] ELSE split[1]),
                        !.points =
                            [i \in 1..Len(cp.points) |->
                                Append(cp.points[i], split[2])]],
                    tags, t + 1)

\* lines 231-247: cp = [panic, columns, points]
RECURSIVE StatsdTags(_, _, _)
StatsdTags(cp, tags, t) ==
    IF t > Len(tags) \/ cp.panic THEN cp
    ELSE LET split == SplitN(tags[t], ":", 2)
         IN  IF Len(split) < 2 /\ Len(cp.points) > 0
             THEN [cp EXCEPT !.panic = TRUE]
             ELSE IF split[1] = hostname
             THEN StatsdTags(
                    [cp EXCEPT !.points =
                        [i \in 1..Len(cp.points) |->
                            [cp.points[i] EXCEPT ![3] = split[2]]]],
                    tags, t + 1)
             ELSE StatsdTags(
                    [cp EXCEPT
                        !.columns = Append(@,
                            IF split[1] = time \/ split[1] = value
                            THEN <<"_">> \o split[1] ELSE split[1]),
                        !.points =
                            [i \in 1..Len(cp.points) |->
                                Append(cp.points[i], split[2])]],
                    tags, t + 1)

\* lines 213-250: st = [panic, host, metrics]
RECURSIVE StatsdSeriesLoop(_, _, _)
StatsdSeriesLoop(st, series, i) ==
    IF i > Len(series) \/ st.panic THEN st
    ELSE LET metric == series[i]
             host == IF Len(metric.Host) > 0 THEN metric.Host ELSE st.host
             cp == StatsdTags(
                     [panic |-> FALSE,
                      columns |-> <<time, value, hostname,
                                    metric_interval, metric_type>>,
                      points |-> StatsdPoints(metric, host)],
                     metric.Tags, 1)
         IN  StatsdSeriesLoop(
                [panic |-> cp.panic, host |-> host,
                 metrics |-> Append(st.metrics,
                     Metric(statsdPrefix \o metric.Metric, cp.columns, cp.points))],
                series, i + 1)

StatsdNoBackfill(metrics, host) == metrics

\* lines 254-260: every row whose hostname is still empty gets the last host
StatsdBackfill(metrics, host) ==
    [m \in 1..Len(metrics) |->
        [metrics[m] EXCEPT !.points =
            [i \in 1..Len(metrics[m].points) |->
                IF Len(metrics[m].points[i][3]) = 0
                THEN [metrics[m].points[i] EXCEPT ![3] = host]
                ELSE metrics[m].points[i]]]]

mapStatsd(series) ==
    LET st == StatsdSeriesLoop([panic |-> FALSE, host |-> EmptyStr,
                                metrics |-> <<>>], series, 1)
    IN  IF st.panic THEN Panic
        ELSE [panic |-> FALSE, metrics |-> StatsdBackfill(st.metrics, st.host)]

(***************************************************************************)
(* Extra metrics: ExtraMetric.ToMetric, addToExtraMetric, mapExtraMetrics  *)
(***************************************************************************)
tagsKey == <<"t", "a", "g", "s">>

MapSet(m, k, v) == [x \in DOMAIN m \cup {k} |-> IF x = k THEN v ELSE m[x]]
MapDel(m, k) == [x \in DOMAIN m \ {k} |-> m[x]]
EmptyMap == [x \in {} |-> EmptyStr]

RECURSIVE SeqOfSet(_)
SeqOfSet(S) ==
    IF S = {} THEN <<>>
    ELSE LET x == CHOOSE y \in S : TRUE IN <<x>> \o SeqOfSet(S \ {x})

Reverse(s) == [i \in 1..Len(s) |-> s[Len(s) + 1 - i]]

\* the keys of a map in the order one `range` visits them: some order or
\* its reverse (every order of a map of one or two keys)
RangeKeys(m, rev) ==
    IF rev THEN Reverse(SeqOfSet(DOMAIN m)) ELSE SeqOfSet(DOMAIN m)

RangePairs(m, rev) ==
    [i \in 1..Cardinality(DOMAIN m) |->
        <<RangeKeys(m, rev)[i], m[RangeKeys(m, rev)[i]]>>]

RECURSIVE ToMetricTagsNoPad(_, _, _, _)
ToMetricTagsNoPad(cp, i, tags, t) ==
    IF t > Len(tags) THEN cp
    ELSE LET k == IF tags[t][1] = time \/ tags[t][1] = value
                  THEN <<"_">> \o tags[t][1] ELSE tags[t][1]
             v == tags[t][2]
             j == Index(cp[1], k)
         IN  IF j > 0
             THEN ToMetricTagsNoPad(<<cp[1], [cp[2] EXCEPT ![i][j] = v]>>,
                                    i, tags, t + 1)
             ELSE ToMetricTagsNoPad(
                    <<Append(cp[1], k), [cp[2] EXCEPT ![i] = Append(@, v)]>>,
                    i, tags, t + 1)

\* lines 535-558 for the tags of sample i: cp = <<columns, points>>
RECURSIVE ToMetricTags(_, _, _, _)
ToMetricTags(cp, i, tags, t) ==
    IF t > Len(tags) THEN cp
    ELSE LET k == IF tags[t][1] = time \/ tags[t][1] = value
                  THEN <<"_">> \o tags[t][1] ELSE tags[t][1]
             v == tags[t][2]
             j == Index(cp[1], k)
         IN  IF j > 0
             THEN ToMetricTags(<<cp[1], [cp[2] EXCEPT ![i][j] = v]>>,
                               i, tags, t + 1)
             ELSE ToMetricTags(
                    <<Append(cp[1], k),
                      [p \in 1..Len(cp[2]) |->
                          Append(cp[2][p], IF p = i THEN v ELSE Nil)]>>,
                    i, tags, t + 1)

RECURSIVE ToMetricSamples(_, _, _, _)
ToMetricSamples(cp, self, i, rev) ==
    IF i > Len(self.Tags) THEN cp
    ELSE ToMetricSamples(
            ToMetricTags(cp, i, RangePairs(self.Tags[i], rev), 1),
            self, i + 1, rev)

\* ExtraMetric.ToMetric; rev is the order of the ranges over the tag maps
ToMetric(self, host, name, rev) ==
    LET points == [i \in 1..Len(self.Values) |->
                      <<self.Timestamp, self.Values[i], host>>]
        cp == ToMetricSamples(<<<<time, value, hostname>>, points>>,
                              self, 1, rev)
    IN  Metric(name, cp[1], cp[2])

\* lines 565-574: a "tags" list of "key:value" strings becomes tag entries
RECURSIVE ExplodeTagList(_, _, _)
ExplodeTagList(tags, tags2, i) ==
    IF i > Len(tags2) THEN tags
    ELSE ExplodeTagList(
            MapSet(tags, SplitN(tags2[i], ":", 2)[1], SplitN(tags2[i], ":", 2)[2]),
            tags2, i + 1)

ExplodeTags(tags) ==
    IF tagsKey \in DOMAIN tags
    THEN MapDel(ExplodeTagList(tags, tags[tagsKey], 1), tagsKey)
    ELSE tags

\* split[1] of a tag string without ':' is read without a length check
ExplodePanics(tags) ==
    /\ tagsKey \in DOMAIN tags
    /\ \E i \in 1..Len(tags[tagsKey]) :
          Len(SplitN(tags[tagsKey][i], ":", 2)) < 2

addToExtraMetric(metric, val, tags) ==
    [metric EXCEPT !.Values = Append(@, val),
                   !.Tags = Append(@, ExplodeTags(tags))]

\* lines 581-598: groups[group_name][field_name] is an ExtraMetric
RECURSIVE ExtraAccumulate(_, _, _)
ExtraAccumulate(groups, data, i) ==
    IF i > Len(data) THEN groups
    ELSE LET metric == data[i]
             gf == GroupMetric(metric[1])
             group == IF gf[1] \in DOMAIN groups THEN groups[gf[1]]
                      ELSE EmptyMap
             extraMetric == IF gf[2] \in DOMAIN group THEN group[gf[2]]
                            ELSE [Values |-> <<>>, Tags |-> <<>>,
                                  Timestamp |-> Millis(metric[2])]
         IN  ExtraAccumulate(
                MapSet(groups, gf[1],
                    MapSet(group, gf[2],
                        addToExtraMetric(extraMetric, metric[3], metric[4]))),
                data, i + 1)

RECURSIVE MergeTags(_, _, _)
MergeTags(groupTags, tags, i) ==
    IF i > Len(tags) THEN groupTags
    ELSE MergeTags(MapSet(groupTags, tags[i][1], tags[i][2]), tags, i + 1)

FoldsIntoWideRowUpToTwo(extraMetric) == Len(extraMetric.Values) <= 2

\* line 606: one sample goes to the wide row
FoldsIntoWideRow(extraMetric) == ~(Len(extraMetric.Values) > 1)

\* lines 605-615 for one group: st = [metrics, groupValues, groupTags,
\* groupTimestamp]
RECURSIVE ExtraFields(_, _, _, _, _, _, _)
ExtraFields(st, host, group_name, group, fields, f, ord) ==
    IF f > Len(fields) THEN st
    ELSE LET field_name == fields[f]
             extraMetric == group[field_name]
         IN  IF ~FoldsIntoWideRow(extraMetric)
             THEN ExtraFields(
                    [st EXCEPT !.metrics = Append(@,
                        ToMetric(extraMetric, host,
                                 group_name \o <<".">> \o field_name, ord.tags))],
                    host, group_name, group, fields, f + 1, ord)
             ELSE ExtraFields(
                    [st EXCEPT
                        !.groupValues = MapSet(@, field_name, extraMetric.Values[1]),
                        !.groupTags = MergeTags(@,
                            RangePairs(extraMetric.Tags[1], ord.tags), 1),
                        !.groupTimestamp = extraMetric.Timestamp],
                    host, group_name, group, fields, f + 1, ord)

\* lines 601-619
RECURSIVE ExtraGroups(_, _, _, _, _, _)
ExtraGroups(metrics, host, groups, names, g, ord) ==
    IF g > Len(names) THEN metrics
    ELSE LET group_name == names[g]
             st == ExtraFields(
                     [metrics |-> metrics, groupValues |-> EmptyMap,
                      groupTags |-> EmptyMap, groupTimestamp |-> 0],
                     host, group_name, groups[group_name],
                     RangeKeys(groups[group_name], ord.fields), 1, ord)
         IN  ExtraGroups(
                IF Cardinality(DOMAIN st.groupValues) > 0
                THEN Append(st.metrics,
                        NewMetricGroup(host, group_name, st.groupTimestamp,
                            RangePairs(st.groupValues, ord.values),
                            RangePairs(st.groupTags, ord.gtags)))
                ELSE st.metrics,
                host, groups, names, g + 1, ord)

ExtraPanics(data) ==
    \E i \in 1..Len(data) :
        GroupMetricPanics(data[i][1]) \/ ExplodePanics(data[i][4])

\* ord gives, for each range over a map, the order it takes
mapExtraMetrics(host, data, ord) ==
    IF ExtraPanics(data) THEN Panic
    ELSE LET groups == ExtraAccumulate(EmptyMap, data, 1)
         IN  [panic |-> FALSE,
              metrics |-> ExtraGroups(<<>>, host, groups,
                              RangeKeys(groups, ord.groups), 1, ord)]

RangeOrders ==
    [groups : BOOLEAN, fields : BOOLEAN, tags : BOOLEAN,
     values : BOOLEAN, gtags : BOOLEAN]

(***************************************************************************)
(* strconv: numbers are held in thousandths; a string that does not parse  *)
(* gives 0, as the callers drop the error                                  *)
(***************************************************************************)
DigitChars == <<"0", "1", "2", "3", "4", "5", "6", "7", "8", "9">>

IsDigits(s) == Len(s) > 0 /\ \A i \in 1..Len(s) : Index(DigitChars, s[i]) > 0

RECURSIVE DigitsValue(_)
DigitsValue(s) ==
    IF Len(s) = 0 THEN 0
    ELSE 10 * DigitsValue(SubSeq(s, 1, Len(s) - 1))
             + (Index(DigitChars, s[Len(s)]) - 1)

\* strconv.ParseInt(s, 10, 64) on unsigned decimal strings
ParseInt(s) == IF IsDigits(s) THEN DigitsValue(s) ELSE 0

\* the float that is not a number: held below every number, so that, as in
\* Go, NaN >= x is false for the thresholds of the source
NaN == -1

\* strconv.ParseFloat(s, 64) on decimal strings of at most 3 decimals, and
\* on "NaN", which it parses without an error
ParseFloat(s) ==
    LET parts == SplitN(s, ".", 2)
        ip == parts[1]
        fp == IF Len(parts) = 2 THEN parts[2] ELSE EmptyStr
        pad == fp \o SubSeq(<<"0", "0", "0">>, 1, 3 - Len(fp))
    IN  IF s = <<"N", "a", "N">> THEN NaN
        ELSE IF /\ ip = EmptyStr \/ IsDigits(ip)
                /\ fp = EmptyStr \/ (IsDigits(fp) /\ Len(fp) <= 3)
                /\ ip # EmptyStr \/ fp # EmptyStr
        THEN 1000 * DigitsValue(ip) + DigitsValue(pad)
        ELSE 0

\* parse / 100.0
Percent(parse) == IF parse = NaN THEN NaN ELSE parse \div 100

(***************************************************************************)
(* mapDiskMetrics, mapIOMetrics                                            *)
(***************************************************************************)
diskMetrics == <<
      <<"d", "e", "v", "i", "c", "e">>,
      <<"t", "o", "t", "a", "l">>,
      <<"u", "s", "e", "d">>,
      <<"f", "r", "e", "e">>,
      <<"i", "n", "_", "u", "s", "e">>,
      <<"m", "o", "u", "n", "t">> >>

ioMetrics == <<
      <<"u", "t", "i", "l">>,
      <<"a", "v", "g", "_", "q", "_", "s", "z">>,
      <<"a", "v", "g", "_", "r", "q", "_", "s", "z">>,
      <<"a", "w", "a", "i", "t">>,
      <<"r", "_", "s">>,
      <<"r", "_", "a", "w", "a", "i", "t">>,
      <<"r", "k", "b", "_", "s">>,
      <<"r", "r", "q", "m", "_", "s">>,
      <<"s", "v", "c", "t", "m">>,
      <<"w", "_", "s">>,
      <<"w", "_", "a", "w", "a", "i", "t">>,
      <<"w", "k", "b", "_", "s">>,
      <<"w", "r", "q", "m", "_", "s">> >>

\* ioMetricMapping[ioMetrics[i]]
ioMetricMapping == <<
      <<"%", "u", "t", "i", "l">>,
      <<"a", "v", "g", "q", "u", "-", "s", "z">>,
      <<"a", "v", "g", "r", "q", "-", "s", "z">>,
      <<"a", "w", "a", "i", "t">>,
      <<"r", "/", "s">>,
      <<"r", "_", "a", "w", "a", "i", "t">>,
      <<"r", "k", "B", "/", "s">>,
      <<"r", "r", "q", "m", "/", "s">>,
      <<"s", "v", "c", "t", "m">>,
      <<"w", "/", "s">>,
      <<"w", "_", "a", "w", "a", "i", "t">>,
      <<"w", "k", "B", "/", "s">>,
      <<"w", "r", "q", "m", "/", "s">> >>

\* percent[:len(percent)-1] of an empty string is out of range
DiskPanics(data) == \E i \in 1..Len(data) : Len(data[i][5]) = 0

mapDiskMetrics(name, host, timestamp, data) ==
    IF DiskPanics(data) THEN Panic
    ELSE Returned(<<Metric(name, <<time, hostname>> \o diskMetrics,
            [i \in 1..Len(data) |->
                <<timestamp, host>> \o
                [data[i] EXCEPT ![5] =
                    Percent(ParseFloat(SubSeq(@, 1, Len(@) - 1)))]])>>)

\* value.(string) of a field the device does not report is a failed assertion
IOPanics(data) ==
    \E d \in DOMAIN data : \E i \in 1..Len(ioMetrics) :
        ioMetricMapping[i] \notin DOMAIN data[d]

mapIOMetrics(host, timestamp, data, rev) ==
    IF IOPanics(data) THEN Panic
    ELSE Returned(<<Metric(<<"s", "y", "s", "t", "e", "m", ".", "i", "o">>,
            <<time, hostname, <<"d", "e", "v", "i", "c", "e">>>> \o ioMetrics,
            [d \in 1..Cardinality(DOMAIN data) |->
                LET device == RangeKeys(data, rev)[d]
                IN  <<timestamp, host, device>> \o
                    [i \in 1..Len(ioMetrics) |->
                        ParseFloat(data[device][ioMetricMapping[i]])]])>>)

(***************************************************************************)
(* GetProcessFamily, mapProcesses                                          *)
(***************************************************************************)
processFilter == 100

aggregateProcessMetrics == <<
      <<"u", "s", "e", "r">>,
      <<"p", "i", "d">>,
      <<"p", "c", "t", "_", "c", "p", "u">>,
      <<"p", "c", "t", "_", "m", "e", "m">>,
      <<"v", "s", "z">>,
      <<"r", "s", "s">>,
      <<"f", "a", "m", "i", "l", "y">>,
      <<"c", "o", "m", "m", "a", "n", "d">>,
      <<"p", "s", "_", "c", "o", "u", "n", "t">> >>

kernel == <<"k", "e", "r", "n", "e", "l">>

\* strings.IndexAny(command, " \t"); 0 when absent
IndexSpace(s) ==
    IF \E i \in 1..Len(s) : s[i] \in {" ", "\t"}
    THEN CHOOSE i \in 1..Len(s) :
            s[i] \in {" ", "\t"} /\ \A j \in 1..(i - 1) : s[j] \notin {" ", "\t"}
    ELSE 0

GetProcessFamily(command) ==
    LET prefix == IF IndexSpace(command) > 1
                  THEN SubSeq(command, 1, IndexSpace(command) - 1)
                  ELSE command
    IN  SubSeq(prefix, LastIndex(prefix, "/") + 1, Len(prefix))

AggrKeyLiteral(command) == command

\* lines 484-491: the key of the bucket a command is folded into
AggrKey(command) ==
    IF Len(command) = 0 \/ command[1] # "[" THEN command ELSE kernel

Family(command) ==
    IF Len(command) = 0 \/ command[1] # "[" THEN GetProcessFamily(command)
    ELSE kernel

RECURSIVE AggregateSummed(_, _, _)
AggregateSummed(aggregate, processes, i) ==
    IF i > Len(processes) THEN aggregate
    ELSE LET fields == processes[i]
             command == fields[11]
             aggr == AggrKey(command)
             seen == aggr \in DOMAIN aggregate
         IN  AggregateSummed(
                MapSet(aggregate, aggr,
                    <<fields[1], ParseInt(fields[2]),
                      ParseFloat(fields[3])
                          + (IF seen THEN aggregate[aggr][3] ELSE 0),
                      ParseFloat(fields[4])
                          + (IF seen THEN aggregate[aggr][4] ELSE 0),
                      ParseInt(fields[5]), ParseInt(fields[6]),
                      Family(command), command,
                      (IF seen THEN aggregate[aggr][9] ELSE 0) + 1>>),
                processes, i + 1)

\* lines 482-509
RECURSIVE Aggregate(_, _, _)
Aggregate(aggregate, processes, i) ==
    IF i > Len(processes) THEN aggregate
    ELSE LET fields == processes[i]
             command == fields[11]
             aggr == AggrKey(command)
             count == IF aggr \in DOMAIN aggregate THEN aggregate[aggr][9]
                      ELSE 0
         IN  Aggregate(
                MapSet(aggregate, aggr,
                    <<fields[1], ParseInt(fields[2]), ParseFloat(fields[3]),
                      ParseFloat(fields[4]), ParseInt(fields[5]),
                      ParseInt(fields[6]), Family(command), command,
                      count + 1>>),
                processes, i + 1)

\* line 514
PassesFilter(process) ==
    process[3] >= processFilter \/ process[4] >= processFilter

mapProcesses(timestamp, data, rev) ==
    LET aggregate == Aggregate(EmptyMap, data.processes, 1)
        emitted == SelectSeq(RangeKeys(aggregate, rev),
                             LAMBDA k : PassesFilter(aggregate[k]))
    IN  Returned(<<Metric(<<"p", "r", "o", "c", "e", "s", "s", "e", "s">>,
            <<time, hostname>> \o aggregateProcessMetrics,
            [p \in 1..Len(emitted) |->
                <<timestamp, data.host>> \o aggregate[emitted[p]]])>>)

(***************************************************************************)
(* mapMetrics, on documents without events, meta, agent_checks and         *)
(* service_checks                                                          *)
(***************************************************************************)
rootMetrics ==
    ("agentVersion" :> <<"h", "o", "s", "t", ".", "m", "e", "t", "a", ".", "a", "g", "e", "n", "t", "_", "v", "e", "r", "s", "i", "o", "n">>) @@
    ("os" :> <<"h", "o", "s", "t", ".", "m", "e", "t", "a", ".", "o", "s">>) @@
    ("python" :> <<"h", "o", "s", "t", ".", "m", "e", "t", "a", ".", "p", "y", "t", "h", "o", "n", "_", "v", "e", "r", "s", "i", "o", "n">>) @@
    ("uuid" :> <<"h", "o", "s", "t", ".", "m", "e", "t", "a", ".", "u", "u", "i", "d">>) @@
    ("system.load.1" :> <<"s", "y", "s", "t", "e", "m", ".", "l", "o", "a", "d", ".", "1">>) @@
    ("system.load.5" :> <<"s", "y", "s", "t", "e", "m", ".", "l", "o", "a", "d", ".", "5">>) @@
    ("system.load.15" :> <<"s", "y", "s", "t", "e", "m", ".", "l", "o", "a", "d", ".", "1", "5">>) @@
    ("system.load.norm.1" :> <<"s", "y", "s", "t", "e", "m", ".", "l", "o", "a", "d", ".", "n", "o", "r", "m", ".", "1">>) @@
    ("system.load.norm.5" :> <<"s", "y", "s", "t", "e", "m", ".", "l", "o", "a", "d", ".", "n", "o", "r", "m", ".", "5">>) @@
    ("system.load.norm.15" :> <<"s", "y", "s", "t", "e", "m", ".", "l", "o", "a", "d", ".", "n", "o", "r", "m", ".", "1", "5">>) @@
    ("cpuIdle" :> <<"s", "y", "s", "t", "e", "m", ".", "c", "p", "u", ".", "i", "d", "l", "e">>) @@
    ("cpuUser" :> <<"s", "y", "s", "t", "e", "m", ".", "c", "p", "u", ".", "u", "s", "e", "r">>) @@
    ("cpuWait" :> <<"s", "y", "s", "t", "e", "m", ".", "c", "p", "u", ".", "i", "o", "w", "a", "i", "t">>) @@
    ("cpuSystem" :> <<"s", "y", "s", "t", "e", "m", ".", "c", "p", "u", ".", "s", "y", "s", "t", "e", "m">>) @@
    ("cpuStolen" :> <<"s", "y", "s", "t", "e", "m", ".", "c", "p", "u", ".", "s", "t", "o", "l", "e", "n">>) @@
    ("memBuffers" :> <<"s", "y", "s", "t", "e", "m", ".", "m", "e", "m", ".", "b", "u", "f", "f", "e", "r", "e", "d">>) @@
    ("memPhysPctUsable" :> <<"s", "y", "s", "t", "e", "m", ".", "m", "e", "m", ".", "p", "c", "t", "_", "u", "s", "a", "b", "l", "e">>) @@
    ("memShared" :> <<"s", "y", "s", "t", "e", "m", ".", "m", "e", "m", ".", "s", "h", "a", "r", "e", "d">>) @@
    ("memPhysTotal" :> <<"s", "y", "s", "t", "e", "m", ".", "m", "e", "m", ".", "t", "o", "t", "a", "l">>) @@
    ("memPhysUsable" :> <<"s", "y", "s", "t", "e", "m", ".", "m", "e", "m", ".", "u", "s", "a", "b", "l", "e">>) @@
    ("memCached" :> <<"s", "y", "s", "t", "e", "m", ".", "m", "e", "m", ".", "c", "a", "c", "h", "e", "d">>) @@
    ("memPhysUsed" :> <<"s", "y", "s", "t", "e", "m", ".", "m", "e", "m", ".", "u", "s", "e", "d">>) @@
    ("memPhysFree" :> <<"s", "y", "s", "t", "e", "m", ".", "m", "e", "m", ".", "f", "r", "e", "e">>) @@
    ("memSwapFree" :> <<"s", "y", "s", "t", "e", "m", ".", "s", "w", "a", "p", ".", "f", "r", "e", "e">>) @@
    ("memSwapTotal" :> <<"s", "y", "s", "t", "e", "m", ".", "s", "w", "a", "p", ".", "t", "o", "t", "a", "l">>) @@
    ("memSwapUsed" :> <<"s", "y", "s", "t", "e", "m", ".", "s", "w", "a", "p", ".", "u", "s", "e", "d">>) @@
    ("memSwapPctFree" :> <<"s", "y", "s", "t", "e", "m", ".", "s", "w", "a", "p", ".", "p", "c", "t", "_", "f", "r", "e", "e">>)

systemDisk == <<"s", "y", "s", "t", "e", "m", ".", "d", "i", "s", "k">>
systemFsInodes == <<"s", "y", "s", "t", "e", "m", ".", "f", "s", ".", "i", "n", "o", "d", "e", "s">>

\* lines 285-297: values[group_name][field_name] for the recognized keys
RootValues(data) ==
    LET keys == DOMAIN data \cap DOMAIN rootMetrics
        groupOf(k) == GroupMetric(rootMetrics[k])[1]
        fieldOf(k) == GroupMetric(rootMetrics[k])[2]
    IN  [g \in {groupOf(k) : k \in keys} |->
            [f \in {fieldOf(k) : k \in {x \in keys : groupOf(x) = g}} |->
                data[CHOOSE k \in keys : groupOf(k) = g /\ fieldOf(k) = f]]]

\* lines 298-300
RootGroups(host, timestamp, values, ord) ==
    [i \in 1..Cardinality(DOMAIN values) |->
        NewMetricGroup(host, RangeKeys(values, ord.groups)[i], timestamp,
            RangePairs(values[RangeKeys(values, ord.groups)[i]], ord.values),
            <<>>)]

\* the results of the calls made in sequence; a panic ends the sequence
RECURSIVE Collect(_, _)
Collect(rets, i) ==
    IF i > Len(rets) THEN Returned(<<>>)
    ELSE IF rets[i].panic THEN Panic
    ELSE LET rest == Collect(rets, i + 1)
         IN  IF rest.panic THEN Panic
             ELSE Returned(rets[i].metrics \o rest.metrics)

\* lines 278-316; data[key].(T) of a key the document lacks is a failed type
\* assertion
TimestampedMetrics(host, data, ord) ==
    LET timestamp == Millis(data["collection_timestamp"])
    IN  Collect(<<
            Returned(RootGroups(host, timestamp, RootValues(data), ord)),
            IF "processes" \in DOMAIN data
            THEN mapProcesses(timestamp, data["processes"], ord.groups)
            ELSE Panic,
            IF "diskUsage" \in DOMAIN data
            THEN mapDiskMetrics(systemDisk, host, timestamp, data["diskUsage"])
            ELSE Panic,
            IF "inodes" \in DOMAIN data
            THEN mapDiskMetrics(systemFsInodes, host, timestamp, data["inodes"])
            ELSE Panic,
            IF "ioStats" \in DOMAIN data
            THEN mapIOMetrics(host, timestamp, data["ioStats"], ord.groups)
            ELSE Panic >>, 1)

mapMetrics(data, ord) ==
    IF "internalHostname" \notin DOMAIN data THEN Panic
    ELSE LET host == data["internalHostname"]
         IN  Collect(<<
                IF "collection_timestamp" \in DOMAIN data
                THEN TimestampedMetrics(host, data, ord)
                ELSE Returned(<<>>),
                IF "metrics" \in DOMAIN data
                THEN mapExtraMetrics(host, data["metrics"], ord)
                ELSE Returned(<<>>) >>, 1)

(***************************************************************************)
(* The server before any request: main, lines 835-847                      *)
(***************************************************************************)
Handlers == 1..NumHandlers

\* no request on the connection yet
ConnIdle ==
    [pc |-> "idle", req |-> [name |-> "", n |-> 0], pending |-> <<>>,
     batch |-> [len |-> 0, unsupported |-> FALSE], mapped |-> FALSE,
     response |-> ""]

\* line 841: writeEvents waits on the channel; nothing written yet
WriterIdle == [pc |-> "recv", attempts |-> <<>>, failed |-> <<>>]

ServerIdle ==
    /\ conn = [h \in Handlers |-> ConnIdle]
    /\ eventsChan = <<>>
    /\ sent = <<>>
    /\ writer = WriterIdle
    /\ eventLog = <<>>
    /\ pushes = [h \in Handlers |-> "none"]
    /\ posts = [h \in Handlers |-> 0]
    /\ stored = {}

(***************************************************************************)
(* CreateDBIfNotExists against the sink.  The GET and the POST are separate *)
(* steps.  The sink answers a create of a name it has with a non-2xx        *)
(* status and leaves its databases as they are.                             *)
(***************************************************************************)
dbName == "datadog"

Instances == 1..NumInstances

BootIdle == [pc |-> "idle", response |-> <<>>, calls |-> <<>>]

\* one finished call: what it returned, whether the listing had dbName,
\* whether it sent the POST, and whether the sink failed it
BootCall(result, found, posted, fault) ==
    [result |-> result, found |-> found, posted |-> posted, fault |-> fault]

ListingHasNever(response, name) == FALSE

\* lines 770-774
ListingHas(response, name) ==
    \E j \in 1..Len(response) : response[j] = name

SinkHas(name) == \E j \in 1..Len(containers) : containers[j] = name

\* lines 754-768: the listing is fetched and decoded
BootList(i) ==
    /\ boot[i].pc = "idle"
    /\ Len(boot[i].calls) < MaxCalls
    /\ boot' = [boot EXCEPT ![i].pc = "listed", ![i].response = containers]
    /\ UNCHANGED <<pc, args, ret, containers, serverVars>>

\* lines 755-757, 761-763, 766-768: the GET, the read or the decoding fails
BootListFails(i) ==
    /\ boot[i].pc = "idle"
    /\ Len(boot[i].calls) < MaxCalls
    /\ boot' = [boot EXCEPT
                  ![i].calls = Append(@, BootCall("err", FALSE, FALSE, TRUE))]
    /\ UNCHANGED <<pc, args, ret, containers, serverVars>>

\* lines 770-774: the listing has dbName, return nil
BootFound(i) ==
    /\ boot[i].pc = "listed"
    /\ ListingHas(boot[i].response, dbName)
    /\ boot' = [boot EXCEPT
                  ![i].pc = "idle",
                  ![i].calls = Append(@,
                      BootCall("nil", dbName \in
                                   {boot[i].response[j] :
                                       j \in 1..Len(boot[i].response)},
                               FALSE, FALSE))]
    /\ UNCHANGED <<pc, args, ret, containers, serverVars>>

\* the statuses the sink answers a create request with
Created == 201
Conflict == 409

CreateResultStrict(status) == IF status = Created THEN "nil" ELSE "err"

\* lines 786-791: a status other than 201 is logged, and nil is returned
CreateResult(status) == "nil"

\* lines 776-791: the POST is answered 201 and the sink has the database
BootCreate(i) ==
    /\ boot[i].pc = "listed"
    /\ ~ListingHas(boot[i].response, dbName)
    /\ ~SinkHas(dbName)
    /\ containers' = Append(containers, dbName)
    /\ boot' = [boot EXCEPT
                  ![i].pc = "idle",
                  ![i].calls = Append(@,
                      BootCall(CreateResult(Created), dbName \in
                                   {boot[i].response[j] :
                                       j \in 1..Len(boot[i].response)},
                               TRUE, FALSE))]
    /\ UNCHANGED <<pc, args, ret, serverVars>>

\* lines 786-791: the POST is answered with another status, which is logged:
\* the sink has the database already, or the sink failed to create it
BootCreateRefused(i) ==
    /\ boot[i].pc = "listed"
    /\ ~ListingHas(boot[i].response, dbName)
    /\ boot' = [boot EXCEPT
                  ![i].pc = "idle",
                  ![i].calls = Append(@,
                      BootCall(CreateResult(Conflict), dbName \in
                                   {boot[i].response[j] :
                                       j \in 1..Len(boot[i].response)},
                               TRUE, ~SinkHas(dbName)))]
    /\ UNCHANGED <<pc, args, ret, containers, serverVars>>

\* lines 783-785: the POST fails in transport, whether or not it reached the
\* sink
BootCreateFails(i) ==
    /\ boot[i].pc = "listed"
    /\ ~ListingHas(boot[i].response, dbName)
    /\ \E reached \in BOOLEAN :
          containers' = IF reached /\ ~SinkHas(dbName)
                        THEN Append(containers, dbName) ELSE containers
    /\ boot' = [boot EXCEPT
                  ![i].pc = "idle",
                  ![i].calls = Append(@,
                      BootCall("err", dbName \in
                                   {boot[i].response[j] :
                                       j \in 1..Len(boot[i].response)},
                               TRUE, TRUE))]
    /\ UNCHANGED <<pc, args, ret, serverVars>>

InitBoot ==
    /\ pc = "boot"
    /\ args = <<>>
    /\ ret = NoRet
    /\ containers \in {<<>>, <<dbName>>, <<"other", dbName>>}
    /\ boot = [i \in Instances |-> BootIdle]
    /\ ServerIdle

NextBoot ==
    \/ \E i \in Instances : BootList(i)
    \/ \E i \in Instances : BootListFails(i)
    \/ \E i \in Instances : BootFound(i)
    \/ \E i \in Instances : BootCreate(i)
    \/ \E i \in Instances : BootCreateRefused(i)
    \/ \E i \in Instances : BootCreateFails(i)

SpecBoot == InitBoot /\ [][NextBoot]_vars

(***************************************************************************)
(* Inputs of the mappers                                                   *)
(***************************************************************************)
ka == <<"a">>
utime == <<"_", "t", "i", "m", "e">>
hostH == <<"h">>
hostG == <<"g">>

PathChars == {"a", "b", "."}

Paths == UNION {[1..n -> PathChars] : n \in 1..MaxPathLen}

GroupMetricInputs == {[fn |-> "GroupMetric", name |-> p] : p \in Paths}

ValueKeys == {time, hostname, ka, utime}
TagKeys == {hostname, time, ka, utime}

ValueOf(k) == <<"v">> \o k
TagOf(k) == <<"w">> \o k

ValueMaps == {[k \in ks |-> ValueOf(k)] : ks \in SUBSET ValueKeys}

TagMaps ==
    {[k \in ks |-> IF k = hostname THEN hv ELSE TagOf(k)] :
        ks \in SUBSET TagKeys, hv \in {EmptyStr, hostG}}

NewMetricGroupInputs ==
    {[fn |-> "NewMetricGroup", host |-> hostH, name |-> <<"n">>,
      timestamp |-> Millis(1), values |-> vs, tags |-> ts] :
        vs \in ValueMaps, ts \in TagMaps}

hostA == <<"A">>
hostB == <<"B">>
hostT == <<"T">>

Tag(k, v) == k \o colons \o v

StatsdPoint1 == <<1, <<"p">>>>
StatsdPoint2 == <<2, <<"q">>>>

StatsdMetricOf(h, ts, ps) ==
    [Tags |-> ts, Metric |-> <<"m">>, Interval |-> 10, Host |-> h,
     Points |-> ps, Type |-> <<"g">>]

\* series without tags and with no, one or two points; series of one point
\* with one or two 'hostname' tags, a repeated tag key, reserved tag keys,
\* and a tag without ':'
StatsdMetrics ==
    { StatsdMetricOf(EmptyStr, <<>>, <<>>),
      StatsdMetricOf(EmptyStr, <<>>, <<StatsdPoint1>>),
      StatsdMetricOf(EmptyStr, <<>>, <<StatsdPoint1, StatsdPoint2>>),
      StatsdMetricOf(hostA, <<>>, <<>>),
      StatsdMetricOf(hostA, <<>>, <<StatsdPoint1>>),
      StatsdMetricOf(hostB, <<>>, <<StatsdPoint1>>),
      StatsdMetricOf(EmptyStr, <<Tag(hostname, hostT)>>, <<StatsdPoint1>>),
      StatsdMetricOf(hostA, <<Tag(hostname, hostT)>>, <<StatsdPoint1>>),
      StatsdMetricOf(EmptyStr, <<Tag(hostname, EmptyStr)>>, <<StatsdPoint1>>),
      StatsdMetricOf(hostA, <<Tag(hostname, EmptyStr), Tag(hostname, hostT)>>,
                     <<StatsdPoint1>>),
      StatsdMetricOf(EmptyStr, <<Tag(ka, <<"x">>), Tag(ka, <<"y">>)>>,
                     <<StatsdPoint1>>),
      StatsdMetricOf(hostA, <<Tag(time, <<"1">>), Tag(value, <<"2">>)>>,
                     <<StatsdPoint1>>),
      StatsdMetricOf(EmptyStr, <<ka>>, <<StatsdPoint1>>) }

mapStatsdInputs ==
    {[fn |-> "mapStatsd", series |-> ss] :
        ss \in UNION {[1..n -> StatsdMetrics] : n \in 1..MaxSeries}}

Digits == <<"1", "2", "3", "4", "5", "6", "7", "8", "9">>
kx == <<"x">>
kc == <<"c">>
nameA == <<"a">>
nameAB == <<"a", ".", "b">>
nameAC == <<"a", ".", "c">>
nameABC == <<"a", ".", "b", ".", "c">>

TagsOf(ks) == [k \in ks |-> TagOf(k)]

WellFormedTagList == [k \in {tagsKey} |-> <<Tag(kx, <<"9">>), Tag(kc, <<"8">>)>>]
MalformedTagList == [k \in {tagsKey} |-> <<kx>>]

\* the name and the tag map of a sample; its time and value are its position
ExtraSampleKinds ==
    ({nameAB} \X {EmptyMap, TagsOf({time, kx}), TagsOf({hostname, value}),
                  WellFormedTagList})
    \cup ({nameAC} \X {EmptyMap, TagsOf({kx})})
    \cup ({nameABC} \X {EmptyMap, MalformedTagList})
    \cup ({nameA} \X {EmptyMap})

mapExtraMetricsInputs ==
    {[fn |-> "mapExtraMetrics", host |-> hostH,
      data |-> [i \in 1..Len(ks) |->
                   <<ks[i][1], i, <<"s", Digits[i]>>, ks[i][2]>>]] :
        ks \in UNION {[1..n -> ExtraSampleKinds] : n \in 1..MaxSamples}}

DiskRows ==
    {<<<<"d">>, <<"9">>, <<"4">>, <<"5">>, pct, <<"/">>>> :
        pct \in {<<"4", "2", "%">>, <<"0", "%">>, <<"x", "%">>, <<"%">>,
                 EmptyStr}}

mapDiskMetricsInputs ==
    {[fn |-> "mapDiskMetrics", name |-> <<"n">>, host |-> hostH,
      timestamp |-> Millis(1), data |-> d] :
        d \in UNION {[1..n -> DiskRows] : n \in 0..MaxDisks}}

IOFields(v) == [k \in {ioMetricMapping[i] : i \in 1..Len(ioMetrics)} |-> v]

IODevices ==
    { IOFields(<<"1", ".", "5">>), IOFields(<<"x">>),
      MapDel(IOFields(<<"2">>), ioMetricMapping[1]) }

mapIOMetricsInputs ==
    {[fn |-> "mapIOMetrics", host |-> hostH, timestamp |-> Millis(1),
      data |-> d] :
        d \in UNION {[ds -> IODevices] :
                        ds \in SUBSET {<<"s", "d", "a">>, <<"s", "d", "b">>}}}

cmdK == <<"[", "k", "]">>
cmdJ == <<"[", "j">>
cmdB == <<"/", "b", "/", "x", " ", "-", "f">>
cmdX == <<"x">>

pctNone == <<<<"0", ".", "0">>, <<"0", ".", "0">>>>
pctCpu == <<<<"0", ".", "1">>, <<"0", ".", "0">>>>
pctMem == <<<<"0", ".", "0", "9">>, <<"0", ".", "2">>>>
pctBad == <<<<"x">>, <<"0", ".", "0", "9", "9">>>>

\* pct_cpu and pct_mem, and the command, of a process
ProcessKinds ==
    { <<pctNone, cmdK>>, <<pctCpu, cmdK>>, <<pctBad, cmdJ>>, <<pctMem, cmdJ>>,
      <<pctNone, cmdB>>, <<pctCpu, cmdB>>, <<pctNone, cmdX>>, <<pctMem, cmdX>>,
      <<pctNone, kernel>>, <<pctCpu, kernel>> }

\* a process tuple: user, pid, pct_cpu, pct_mem, vsz, rss, tty, stat,
\* started, running_time, command; the pid is the position in the list
ProcessOf(i, pct, command) ==
    <<<<"u">>, <<Digits[i]>>, pct[1], pct[2], <<"8">>, <<"6">>, <<"?">>,
      <<"S">>, <<"0">>, <<"0">>, command>>

mapProcessesInputs ==
    {[fn |-> "mapProcesses", timestamp |-> Millis(1),
      data |-> [host |-> hostH,
                processes |-> [i \in 1..Len(ks) |->
                                  ProcessOf(i, ks[i][1], ks[i][2])]]] :
        ks \in UNION {[1..n -> ProcessKinds] : n \in 0..MaxProcs}}

cpuIdleValue == <<"9", "3", ".", "5">>

\* every value a document key may carry
DocumentValue ==
    [ internalHostname |-> hostH,
      collection_timestamp |-> 1,
      cpuIdle |-> cpuIdleValue,
      cpuUser |-> <<"4">>,
      memPhysFree |-> <<"7">>,
      processes |-> [host |-> hostH,
                     processes |-> <<ProcessOf(1, pctCpu, cmdX)>>],
      diskUsage |-> <<<<<<"d">>, <<"9">>, <<"4">>, <<"5">>, <<"4", "2", "%">>,
                       <<"/">>>>>>,
      inodes |-> <<>>,
      ioStats |-> [d \in {<<"s", "d", "a">>} |-> IOFields(<<"1", ".", "5">>)],
      metrics |-> <<<<nameAB, 1, <<"s", "1">>, EmptyMap>>>> ]

Documents ==
    {[k \in ks |-> DocumentValue[k]] : ks \in SUBSET DOMAIN DocumentValue}

mapMetricsInputs == {[fn |-> "mapMetrics", data |-> doc] : doc \in Documents}

(***************************************************************************)
(* One call of one mapper on one input                                     *)
(***************************************************************************)
\* the call to make: the function and its arguments
Calls(fn) ==
    CASE fn = "GroupMetric" -> GroupMetricInputs
      [] fn = "NewMetricGroup" -> NewMetricGroupInputs
      [] fn = "mapStatsd" -> mapStatsdInputs
      [] fn = "mapExtraMetrics" -> mapExtraMetricsInputs
      [] fn = "mapDiskMetrics" -> mapDiskMetricsInputs
      [] fn = "mapIOMetrics" -> mapIOMetricsInputs
      [] fn = "mapProcesses" -> mapProcessesInputs
      [] fn = "mapMetrics" -> mapMetricsInputs

Init ==
    /\ pc = "call"
    /\ \E fn \in {"GroupMetric", "NewMetricGroup", "mapStatsd",
                  "mapExtraMetrics", "mapDiskMetrics", "mapIOMetrics",
                  "mapProcesses", "mapMetrics"} : args \in Calls(fn)
    /\ ret = NoRet
    /\ containers = <<>>
    /\ boot = [i \in Instances |-> BootIdle]
    /\ ServerIdle

CallGroupMetric ==
    /\ pc = "call"
    /\ args.fn = "GroupMetric"
    /\ pc' = "done"
    /\ ret' = IF GroupMetricPanics(args.name) THEN Panic
              ELSE Returned(GroupMetric(args.name))
    /\ UNCHANGED <<args, containers, boot, serverVars>>

CallNewMetricGroup ==
    /\ pc = "call"
    /\ args.fn = "NewMetricGroup"
    /\ pc' = "done"
    /\ \E vo \in Orderings(args.values), to \in Orderings(args.tags) :
          ret' = Returned(<<NewMetricGroup(args.host, args.name,
                                           args.timestamp, vo, to)>>)
    /\ UNCHANGED <<args, containers, boot, serverVars>>

CallMapStatsd ==
    /\ pc = "call"
    /\ args.fn = "mapStatsd"
    /\ pc' = "done"
    /\ ret' = mapStatsd(args.series)
    /\ UNCHANGED <<args, containers, boot, serverVars>>

CallMapExtraMetrics ==
    /\ pc = "call"
    /\ args.fn = "mapExtraMetrics"
    /\ pc' = "done"
    /\ \E ord \in RangeOrders :
          ret' = mapExtraMetrics(args.host, args.data, ord)
    /\ UNCHANGED <<args, containers, boot, serverVars>>

CallMapDiskMetrics ==
    /\ pc = "call"
    /\ args.fn = "mapDiskMetrics"
    /\ pc' = "done"
    /\ ret' = mapDiskMetrics(args.name, args.host, args.timestamp, args.data)
    /\ UNCHANGED <<args, containers, boot, serverVars>>

CallMapIOMetrics ==
    /\ pc = "call"
    /\ args.fn = "mapIOMetrics"
    /\ pc' = "done"
    /\ \E rev \in BOOLEAN :
          ret' = mapIOMetrics(args.host, args.timestamp, args.data, rev)
    /\ UNCHANGED <<args, containers, boot, serverVars>>

CallMapProcesses ==
    /\ pc = "call"
    /\ args.fn = "mapProcesses"
    /\ pc' = "done"
    /\ \E rev \in BOOLEAN :
          ret' = mapProcesses(args.timestamp, args.data, rev)
    /\ UNCHANGED <<args, containers, boot, serverVars>>

CallMapMetrics ==
    /\ pc = "call"
    /\ args.fn = "mapMetrics"
    /\ pc' = "done"
    /\ \E ord \in RangeOrders : ret' = mapMetrics(args.data, ord)
    /\ UNCHANGED <<args, containers, boot, serverVars>>

Next ==
    \/ CallMapMetrics
    \/ CallMapDiskMetrics
    \/ CallMapIOMetrics
    \/ CallMapProcesses
    \/ CallMapExtraMetrics
    \/ CallGroupMetric
    \/ CallNewMetricGroup
    \/ CallMapStatsd

Spec == Init /\ [][Next]_vars

Done(fn) == pc = "done" /\ args.fn = fn /\ ~ret.panic

(***************************************************************************)
(* The requests served by handleIntake and handleApi.  A request is named, *)
(* and n is the number of events each of its sources carries.              *)
(***************************************************************************)
\* line 839
eventsChanCap == 5

pctNaN == <<<<"N", "a", "N">>, <<"0", ".", "2">>>>

Request(name, n) == [name |-> name, n |-> n]

\* the requests whose document carries events
Producers ==
    {Request("events", n) : n \in {1, MaxEvents}}
    \cup {Request(name, 1) : name \in {"eventsTwo", "eventsBad",
                                        "eventsCpuIdle"}}

\* the requests of the route /intake: one of them carries an event
IntakeRequests ==
    {Request(name, 0) :
        name \in {"status", "badform", "zlib", "read", "json", "min", "full",
                  "cpuIdle", "nan"}}
    \cup {Request("events", 1)}

\* the requests of the route /api/v1/series/
ApiRequests ==
    {Request(name, 0) :
        name \in {"badkey", "zlib", "read", "json", "series0", "series1",
                  "seriesTag"}}

\* lines 717, 721-722, 730: what handleApiKey finds in the request
Gate(req) ==
    CASE req.name = "status" -> "Datadog-Status-Check"
      [] req.name = "badform" -> "form"
      [] req.name = "badkey" -> "key"
      [] OTHER -> "pass"

DecodeFailsNever(req) == FALSE

\* lines 648-649, 656-657, 664-665 and 686-687, 694-695, 702-703: the body
\* is not a zlib stream, cannot be read, or is not the JSON expected
DecodeFails(req) == req.name \in {"zlib", "read", "json"}

cpuIdleDocument ==
    [k \in {"internalHostname", "collection_timestamp", "cpuIdle"} |->
        DocumentValue[k]]

minDocument == [k \in {"internalHostname"} |-> DocumentValue[k]]

\* n event objects
EventList(n) == [k \in 1..n |-> "object"]

\* the value of the "events" key
EventsOf(req) ==
    CASE req.name = "eventsTwo" ->
            ("a" :> EventList(req.n)) @@ ("b" :> EventList(req.n))
      [] req.name = "eventsBad" ->
            ("a" :> Append(EventList(req.n), "string"))
      [] OTHER -> ("a" :> EventList(req.n))

\* line 664: data after json.Unmarshal; it is empty when the decoding failed
IntakeData(req) ==
    CASE req.name = "min" -> minDocument
      [] req.name = "full" -> DocumentValue
      [] req.name = "cpuIdle" -> cpuIdleDocument
      [] req.name = "nan" ->
            [DocumentValue EXCEPT !.processes =
                [host |-> hostH,
                 processes |-> <<ProcessOf(1, pctNaN, cmdX)>>]]
      [] req.name \in {"events", "eventsTwo", "eventsBad"} ->
            minDocument @@ ("events" :> EventsOf(req))
      [] req.name = "eventsCpuIdle" ->
            cpuIdleDocument @@ ("events" :> EventsOf(req))
      [] OTHER -> EmptyMap

\* line 702: series.Series after json.Unmarshal
ApiSeries(req) ==
    CASE req.name = "series1" ->
            <<StatsdMetricOf(hostA, <<>>, <<StatsdPoint1>>)>>
      [] req.name = "seriesTag" ->
            <<StatsdMetricOf(EmptyStr, <<ka>>, <<StatsdPoint1>>)>>
      [] OTHER -> <<>>

(***************************************************************************)
(* handleApiKey, handleIntake, handleApi, parseEvents                      *)
(***************************************************************************)
failed == "{\"status\":\"failed\"}"
ok == "{\"status\":\"ok\"}"

\* the handler returns after writing the response
Finish(c, response) == [c EXCEPT !.pc = "done", !.response = response]

\* a panic in the handler: net/http recovers it and closes the connection
\* without a response
Recovered(c) == [c EXCEPT !.pc = "done", !.response = "closed"]

\* lines 716-736: what handleApiKey writes; nothing when the request passes
handleApiKey(req) ==
    CASE Gate(req) = "Datadog-Status-Check" -> "STILL-ALIVE\n"
      [] Gate(req) = "form" -> "500"
      [] Gate(req) = "key" -> "403"
      [] OTHER -> ""

\* json.Marshal of the batch fails on a float that is not a number; such a
\* float comes from strconv.ParseFloat, lines 437, 457, 502, 503
UnsupportedValue(metrics) ==
    \E m \in 1..Len(metrics) : \E p \in 1..Len(metrics[m].points) :
        LET columns == metrics[m].columns
            row == metrics[m].points[p]
        IN  \/ /\ columns = <<time, hostname>> \o aggregateProcessMetrics
               /\ row[5] = NaN \/ row[6] = NaN
            \/ /\ columns = <<time, hostname>> \o diskMetrics
               /\ row[7] = NaN
            \/ /\ columns = <<time, hostname, <<"d", "e", "v", "i", "c", "e">>>>
                               \o ioMetrics
               /\ \E i \in 4..Len(row) : row[i] = NaN

\* what PushMetrics is started with: the length of the batch, and whether
\* json.Marshal refuses it
Batch(metrics) ==
    [len |-> Len(metrics), unsupported |-> UnsupportedValue(metrics)]

\* lines 671-675 and 709-713: the mapper returned r, or panicked
Mapped(c, r) ==
    IF r.panic THEN Recovered(c)
    ELSE Finish([c EXCEPT !.batch = Batch(r.metrics)], ok)

\* the length of the batch and whether it marshals do not depend on the
\* order in which range visits a map: one order is evaluated
SomeOrder == CHOOSE ord \in RangeOrders : TRUE

\* lines 624-627: the events in the order parseEvents visits them
EventsInOrder(events, rev) ==
    LET sources == RangeKeys(events, rev)
        of(i) == [k \in 1..Len(events[sources[i]]) |->
                     [source |-> sources[i], k |-> k,
                      body |-> events[sources[i]][k]]]
    IN  IF Len(sources) = 1 THEN of(1) ELSE of(1) \o of(2)

\* lines 626-635 and 274-335: parseEvents at the event it visits next.  It
\* stops at a send; an event that is not an object is a failed type
\* assertion; after the last event mapMetrics goes on to its end.
parseEvents(c) ==
    IF c.pending = <<>>
    THEN Mapped(c, mapMetrics(IntakeData(c.req), SomeOrder))
    ELSE IF Head(c.pending).body # "object" THEN Recovered(c)
    ELSE [c EXCEPT !.pc = "send"]

\* lines 266-273: mapMetrics up to parseEvents
mapMetricsBegin(c, rev) ==
    LET data == IntakeData(c.req)
    IN  IF "internalHostname" \notin DOMAIN data
        THEN Recovered([c EXCEPT !.mapped = TRUE])
        ELSE parseEvents([c EXCEPT !.mapped = TRUE,
                 !.pending = IF "events" \in DOMAIN data
                             THEN EventsInOrder(data["events"], rev)
                             ELSE <<>>])

\* the events the document of a request carries
Carried(req) ==
    IF req \in Producers
    THEN LET events == EventsOf(req)
             sources == SeqOfSet(DOMAIN events)
         IN  IF Len(sources) = 1 THEN Len(events[sources[1]])
             ELSE Len(events[sources[1]]) + Len(events[sources[2]])
    ELSE 0

RECURSIVE CarriedBy(_)
CarriedBy(h) ==
    IF h = 0 THEN 0 ELSE Carried(conn[h].req) + CarriedBy(h - 1)

\* a request arrives; connections are numbered in the order of arrival
Arrives(h, req) ==
    /\ conn[h].pc = "idle"
    /\ \A g \in 1..(h - 1) : conn[g].pc # "idle"
    /\ CarriedBy(NumHandlers) + Carried(req) <= MaxSent

\* line 672 and 710: go PushMetrics(metrics), reached when the handler
\* answers ok
StartPush(h, c) ==
    pushes' = [pushes EXCEPT ![h] = IF c.response = ok THEN "start" ELSE @]

\* lines 640-676: the handler of a request, up to its return or to its
\* first send on eventsChan
handleIntake(h, requests) ==
    \E req \in requests, rev \in BOOLEAN :
        /\ Arrives(h, req)
        /\ LET c == [conn[h] EXCEPT !.req = req]
               after ==
                   IF handleApiKey(req) # "" THEN Finish(c, handleApiKey(req))
                   ELSE IF DecodeFails(req) THEN Finish(c, failed)
                   ELSE mapMetricsBegin(c, rev)
           IN  /\ conn' = [conn EXCEPT ![h] = after]
               /\ StartPush(h, after)
        /\ UNCHANGED <<pc, args, ret, containers, boot, eventsChan, sent,
                       writer, eventLog, posts, stored>>

\* lines 678-714
handleApi(h) ==
    \E req \in ApiRequests :
        /\ Arrives(h, req)
        /\ LET c == [conn[h] EXCEPT !.req = req]
               after ==
                   IF handleApiKey(req) # "" THEN Finish(c, handleApiKey(req))
                   ELSE IF DecodeFails(req) THEN Finish(c, failed)
                   ELSE Mapped([c EXCEPT !.mapped = TRUE],
                               mapStatsd(ApiSeries(req)))
           IN  /\ conn' = [conn EXCEPT ![h] = after]
               /\ StartPush(h, after)
        /\ UNCHANGED <<pc, args, ret, containers, boot, eventsChan, sent,
                       writer, eventLog, posts, stored>>

\* the marshalled event: the request it came with, its source, its position
Event(h, e) == <<h, e.source, e.k>>

\* line 635: the send itself, which blocks while the channel is full
Send(h) ==
    /\ conn[h].pc = "send"
    /\ Len(eventsChan) < eventsChanCap
    /\ eventsChan' = Append(eventsChan, Event(h, Head(conn[h].pending)))

\* line 635: the send, and the handler up to its next send or to its return
Enqueue(h) ==
    /\ Send(h)
    /\ sent' = Append(sent, Event(h, Head(conn[h].pending)))
    /\ LET after == parseEvents([conn[h] EXCEPT !.pc = "parseEvents",
                                                !.pending = Tail(@)])
       IN  /\ conn' = [conn EXCEPT ![h] = after]
           /\ StartPush(h, after)
    /\ UNCHANGED <<pc, args, ret, containers, boot, writer, eventLog, posts,
                   stored>>

(***************************************************************************)
(* PushMetrics                                                             *)
(***************************************************************************)
\* lines 180-182
PushNothing(h) ==
    /\ pushes[h] = "start"
    /\ conn[h].batch.len = 0
    /\ pushes' = [pushes EXCEPT ![h] = "empty"]
    /\ UNCHANGED <<pc, args, ret, containers, boot, conn, eventsChan, sent,
                   writer, eventLog, posts, stored>>

\* lines 185-189
PushMarshalFails(h) ==
    /\ pushes[h] = "start"
    /\ conn[h].batch.len > 0
    /\ conn[h].batch.unsupported
    /\ pushes' = [pushes EXCEPT ![h] = "marshal"]
    /\ UNCHANGED <<pc, args, ret, containers, boot, conn, eventsChan, sent,
                   writer, eventLog, posts, stored>>

\* line 191: the one call of http.Post
Posts(n) == n + 1

\* lines 191-197: the sink stores the batch when it answers 200, and may
\* have stored it when the transport failed
PushPost(h) ==
    /\ pushes[h] = "start"
    /\ conn[h].batch.len > 0
    /\ ~conn[h].batch.unsupported
    /\ posts' = [posts EXCEPT ![h] = Posts(@)]
    /\ \E outcome \in {"200", "status", "error"}, reached \in BOOLEAN :
          /\ pushes' = [pushes EXCEPT ![h] = outcome]
          /\ stored' = IF outcome = "200" \/ (outcome = "error" /\ reached)
                       THEN stored \cup {h} ELSE stored
    /\ UNCHANGED <<pc, args, ret, containers, boot, conn, eventsChan, sent,
                   writer, eventLog>>

(***************************************************************************)
(* writeEvents                                                             *)
(***************************************************************************)
ReceivedLast(ch) == ch[Len(ch)]
\* line 743: `range eventsChan` receives the oldest event of the channel
Received(ch) == Head(ch)

\* line 743: the channel after the receive
Remaining(ch) == Tail(ch)

AfterWriteErrorStops == "stopped"
\* lines 745-747: the error is logged and the loop goes on
AfterWriteError == "recv"

\* lines 743-744: an event is received, and it and its newline are appended
writeEvents ==
    /\ writer.pc = "recv"
    /\ eventsChan # <<>>
    /\ eventsChan' = Remaining(eventsChan)
    /\ eventLog' = Append(eventLog, Received(eventsChan))
    /\ writer' = [writer EXCEPT !.attempts = Append(@, Received(eventsChan))]
    /\ UNCHANGED <<pc, args, ret, containers, boot, conn, sent, pushes, posts,
                   stored>>

\* lines 743-747: an event is received and the write fails
writeEventsFails ==
    /\ writer.pc = "recv"
    /\ eventsChan # <<>>
    /\ Len(writer.failed) < MaxWriteErrors
    /\ eventsChan' = Remaining(eventsChan)
    /\ writer' = [writer EXCEPT !.pc = AfterWriteError,
                                !.attempts = Append(@, Received(eventsChan)),
                                !.failed = Append(@, Received(eventsChan))]
    /\ UNCHANGED <<pc, args, ret, containers, boot, conn, sent, eventLog,
                   pushes, posts, stored>>

(***************************************************************************)
(* The server: concurrent handlers, their PushMetrics goroutines and the   *)
(* one writeEvents                                                         *)
(***************************************************************************)
InitServer ==
    /\ pc = "serve"
    /\ args = <<>>
    /\ ret = NoRet
    /\ containers = <<dbName>>
    /\ boot = [i \in Instances |-> BootIdle]
    /\ ServerIdle

NextServer ==
    \/ \E h \in Handlers : handleIntake(h, IntakeRequests)
    \/ \E h \in Handlers : handleApi(h)
    \/ \E h \in Handlers : Enqueue(h)
    \/ \E h \in Handlers : PushNothing(h)
    \/ \E h \in Handlers : PushMarshalFails(h)
    \/ \E h \in Handlers : PushPost(h)
    \/ writeEvents
    \/ writeEventsFails

SpecServer == InitServer /\ [][NextServer]_vars

(***************************************************************************)
(* The producers: concurrent handlers of requests that carry events, and   *)
(* the one writeEvents                                                     *)
(***************************************************************************)
NextEvents ==
    \/ \E h \in Handlers : handleIntake(h, Producers)
    \/ \E h \in Handlers : Enqueue(h)
    \/ writeEvents
    \/ writeEventsFails

SpecEvents == InitServer /\ [][NextEvents]_vars

\* the scheduler runs every goroutine that can take a step: a handler at a
\* send that the channel has room for, and writeEvents
SpecEventsFair ==
    /\ SpecEvents
    /\ \A h \in Handlers : WF_eventsChan(Send(h))
    /\ WF_vars(writeEvents \/ writeEventsFails)

(***************************************************************************)
(* GroupMetric                                                             *)
(***************************************************************************)
\* independent reading of a path: all its segments, and their re-joining
RECURSIVE Segments(_)
Segments(s) ==
    IF Index(s, ".") = 0 THEN <<s>>
    ELSE <<SubSeq(s, 1, Index(s, ".") - 1)>>
             \o Segments(SubSeq(s, Index(s, ".") + 1, Len(s)))

RECURSIVE JoinDot(_)
JoinDot(segs) ==
    IF Len(segs) = 1 THEN segs[1]
    ELSE segs[1] \o <<".">> \o JoinDot(Tail(segs))

(***************************************************************************)
(* NewMetricGroup                                                          *)
(***************************************************************************)
\* C4: a 'hostname' tag with a non-empty value replaces the hostname slot
\* and is never a column of its own; a 'hostname' tag with an empty value
\* leaves the hostname slot equal to the host argument.
HostnameTagOverridesOnlyWhenNonEmpty ==
    (Done("NewMetricGroup") /\ hostname \in DOMAIN args.tags) =>
        LET m == ret.metrics[1]
            row == m.points[1]
            nv == Cardinality(DOMAIN args.values)
            nt == Cardinality(DOMAIN args.tags)
        IN  /\ Len(m.columns) = 2 + nv + nt - 1
            /\ args.tags[hostname] # EmptyStr => row[2] = args.tags[hostname]
            /\ args.tags[hostname] = EmptyStr => row[2] = args.host

HasHostnameTag(metric) ==
    \E t \in 1..Len(metric.Tags) : SplitN(metric.Tags[t], ":", 2)[1] = hostname

\* the host of the last series at or before i that has one, else ""
RECURSIVE StickyAt(_, _)
StickyAt(series, i) ==
    IF i = 0 THEN EmptyStr
    ELSE IF Len(series[i].Host) > 0 THEN series[i].Host
    ELSE StickyAt(series, i - 1)

\* C1 as stated: the rows of a series without a 'hostname' tag carry the
\* host of the most recent series that had one, and an empty hostname when
\* no earlier series had one (never a host taken from a later series).
StickyHostOnlyForward ==
    Done("mapStatsd") =>
        \A i \in 1..Len(args.series) :
            ~HasHostnameTag(args.series[i]) =>
                \A p \in 1..Len(ret.metrics[i].points) :
                    ret.metrics[i].points[p][3] = StickyAt(args.series, i)

\* C1 amended: the rows of a series without a 'hostname' tag carry the host
\* of the most recent series at or before it that had one; when there is
\* none they carry the host of the last series of the whole list that has
\* one, and an empty hostname only if no series has a host.
StickyHostBackfilled ==
    Done("mapStatsd") =>
        \A i \in 1..Len(args.series) :
            ~HasHostnameTag(args.series[i]) =>
                \A p \in 1..Len(ret.metrics[i].points) :
                    ret.metrics[i].points[p][3] =
                        IF StickyAt(args.series, i) # EmptyStr
                        THEN StickyAt(args.series, i)
                        ELSE StickyAt(args.series, Len(args.series))

StickyHostWitness ==
    /\ Done("mapStatsd")
    /\ Len(args.series) = 3
    /\ args.series[1].Host = EmptyStr /\ ~HasHostnameTag(args.series[1])
    /\ args.series[2].Host = hostA
    /\ args.series[3].Host = hostB
    /\ Len(ret.metrics[1].points) = 2
    /\ ret.metrics[1].points[2][3] = hostB

(***************************************************************************)
(* Every record of every mapper                                            *)
(***************************************************************************)
MapperFns ==
    {"NewMetricGroup", "mapStatsd", "mapExtraMetrics", "mapDiskMetrics",
     "mapIOMetrics", "mapProcesses"}

\* C2: the columns of every record built by NewMetricGroup, ToMetric (through
\* mapExtraMetrics) and mapStatsd contain no name twice.
NoDuplicateColumns ==
    (pc = "done" /\ ~ret.panic
        /\ args.fn \in {"NewMetricGroup", "mapExtraMetrics", "mapStatsd"}) =>
        \A m \in 1..Len(ret.metrics) :
            \A i, j \in 1..Len(ret.metrics[m].columns) :
                i # j => ret.metrics[m].columns[i] # ret.metrics[m].columns[j]

\* C3: every row of every record a mapper returns has exactly as many values
\* as the record has columns.
RowsMatchColumns ==
    (pc = "done" /\ ~ret.panic /\ args.fn \in MapperFns) =>
        \A m \in 1..Len(ret.metrics) :
            \A p \in 1..Len(ret.metrics[m].points) :
                Len(ret.metrics[m].points[p]) = Len(ret.metrics[m].columns)

\* a narrow record of two samples with different tag sets, padded with nil
RowsMatchColumnsWitness ==
    /\ Done("mapExtraMetrics")
    /\ \E m \in 1..Len(ret.metrics) :
          /\ ret.metrics[m].columns[2] = value
          /\ Len(ret.metrics[m].columns) >= 5
          /\ Len(ret.metrics[m].points) >= 2
          /\ \E p \in 1..Len(ret.metrics[m].points) :
                ret.metrics[m].points[p][4] = Nil

(***************************************************************************)
(* mapExtraMetrics                                                         *)
(***************************************************************************)
SamplesOf(data, gf) == {i \in 1..Len(data) : GroupMetric(data[i][1]) = gf}

\* the fields of group g observed exactly once
SingleFields(data, g) ==
    {GroupMetric(data[i][1])[2] : i \in
        {i \in 1..Len(data) :
            /\ GroupMetric(data[i][1])[1] = g
            /\ Cardinality(SamplesOf(data, GroupMetric(data[i][1]))) = 1}}

\* the r-th smallest element of a set of numbers
Nth(S, r) == CHOOSE x \in S : Cardinality({y \in S : y < x}) = r - 1

IsWide(m) == m.columns[2] = hostname
IsNarrow(m) == m.columns[2] = value

WideColumn(f) == IF f = time \/ f = hostname THEN <<"_">> \o f ELSE f

\* C7: a (group, field) observed once is a value column of the group's one
\* wide row; a (group, field) observed twice or more is no value column of
\* the wide row and is one record named group.field with leading columns
\* time, value, hostname and one row per sample; a group without a field
\* observed once has no wide row.
ExtraMetricFanOut ==
    Done("mapExtraMetrics") =>
        \A i \in 1..Len(args.data) :
            LET gf == GroupMetric(args.data[i][1])
                same == SamplesOf(args.data, gf)
                singles == SingleFields(args.data, gf[1])
                wide == {m \in 1..Len(ret.metrics) :
                            /\ ret.metrics[m].name = gf[1]
                            /\ IsWide(ret.metrics[m])}
                narrow == {m \in 1..Len(ret.metrics) :
                            /\ ret.metrics[m].name = gf[1] \o <<".">> \o gf[2]
                            /\ IsNarrow(ret.metrics[m])}
                valueCols == 3..(2 + Cardinality(singles))
            IN  /\ Cardinality(wide) = IF singles = {} THEN 0 ELSE 1
                /\ \A m \in wide : Len(ret.metrics[m].points) = 1
                /\ Cardinality(same) = 1 =>
                      /\ narrow = {}
                      /\ \A m \in wide : \E c \in valueCols :
                            /\ ret.metrics[m].columns[c] = WideColumn(gf[2])
                            /\ ret.metrics[m].points[1][c] = args.data[i][3]
                /\ Cardinality(same) >= 2 =>
                      /\ \A m \in wide : \A c \in valueCols :
                            ret.metrics[m].columns[c] # WideColumn(gf[2])
                      /\ Cardinality(narrow) = 1
                      /\ \A m \in narrow :
                            /\ SubSeq(ret.metrics[m].columns, 1, 3)
                                  = <<time, value, hostname>>
                            /\ Len(ret.metrics[m].points) = Cardinality(same)
                            /\ \A r \in 1..Cardinality(same) :
                                  ret.metrics[m].points[r][2]
                                      = args.data[Nth(same, r)][3]

\* a.b observed twice and a.c once: one narrow record a.b and the wide row a
ExtraMetricFanOutWitness ==
    /\ Done("mapExtraMetrics")
    /\ Len(args.data) = 3
    /\ Cardinality(SamplesOf(args.data, <<nameA, <<"b">>>>)) = 2
    /\ Cardinality(SamplesOf(args.data, <<nameA, kc>>)) = 1
    /\ Len(ret.metrics) = 2
    /\ \E m \in 1..2 : IsNarrow(ret.metrics[m]) /\ Len(ret.metrics[m].points) = 2

\* the group and the field of a path of two or more segments, read from its
\* segments
GroupOfSegments(segs) ==
    IF Len(segs) >= 3 THEN segs[1] \o <<".">> \o segs[2] ELSE segs[1]

FieldOfSegments(segs) ==
    IF Len(segs) >= 3 THEN JoinDot(SubSeq(segs, 3, Len(segs))) ELSE segs[2]

\* C6: GroupMetric returns (first two segments joined by '.', the whole
\* remainder as one field) for a path of 3 or more segments and (first
\* segment, second segment) for a path of exactly 2 segments; the records of
\* mapMetrics for root metrics and of mapExtraMetrics are named and filled
\* by that same split.
GroupMetricSplitsAtSecondDot ==
    /\ (pc = "done" /\ args.fn = "GroupMetric") =>
        LET segs == Segments(args.name)
        IN  /\ Len(segs) >= 3 =>
                /\ ~ret.panic
                /\ ret.metrics[1] = segs[1] \o <<".">> \o segs[2]
                /\ ret.metrics[2] = JoinDot(SubSeq(segs, 3, Len(segs)))
            /\ Len(segs) = 2 =>
                /\ ~ret.panic
                /\ ret.metrics = <<segs[1], segs[2]>>
    /\ Done("mapExtraMetrics") =>
        \A i \in 1..Len(args.data) :
            LET g == GroupOfSegments(Segments(args.data[i][1]))
                f == FieldOfSegments(Segments(args.data[i][1]))
            IN  \E m \in 1..Len(ret.metrics) :
                    \/ /\ ret.metrics[m].name = g
                       /\ IsWide(ret.metrics[m])
                       /\ \E c \in 3..Len(ret.metrics[m].columns) :
                             ret.metrics[m].columns[c] = WideColumn(f)
                    \/ /\ ret.metrics[m].name = g \o <<".">> \o f
                       /\ IsNarrow(ret.metrics[m])
    /\ (Done("mapMetrics") /\ "collection_timestamp" \in DOMAIN args.data) =>
        \A k \in DOMAIN args.data \cap DOMAIN rootMetrics :
            LET g == GroupOfSegments(Segments(rootMetrics[k]))
                f == FieldOfSegments(Segments(rootMetrics[k]))
            IN  \E m \in 1..Len(ret.metrics) :
                    /\ ret.metrics[m].name = g
                    /\ IsWide(ret.metrics[m])
                    /\ \E c \in 3..Len(ret.metrics[m].columns) :
                          /\ ret.metrics[m].columns[c] = WideColumn(f)
                          /\ ret.metrics[m].points[1][c] = args.data[k]

GroupMetricWitness ==
    /\ Done("GroupMetric")
    /\ Len(Segments(args.name)) >= 4
    /\ Index(ret.metrics[2], ".") > 0

(***************************************************************************)
(* mapProcesses                                                            *)
(***************************************************************************)
\* the bucket the claim assigns to the i-th process
BucketOf(processes, i) ==
    IF Len(processes[i][11]) > 0 /\ processes[i][11][1] = "["
    THEN kernel ELSE processes[i][11]

Buckets(processes) == {BucketOf(processes, i) : i \in 1..Len(processes)}

Members(processes, b) ==
    {i \in 1..Len(processes) : BucketOf(processes, i) = b}

LastOf(processes, b) ==
    processes[Nth(Members(processes, b), Cardinality(Members(processes, b)))]

AtThreshold(fields) ==
    ParseFloat(fields[3]) >= processFilter \/ ParseFloat(fields[4]) >= processFilter

\* C8: every command beginning with '[' is folded into the one bucket
\* 'kernel' with family 'kernel', and a bucket has an output row if and only
\* if its pct_cpu or its pct_mem is at least processFilter.
KernelBucketAndFilter ==
    Done("mapProcesses") =>
        LET processes == args.data.processes
            rows == ret.metrics[1].points
            emitted == {b \in Buckets(processes) :
                           AtThreshold(LastOf(processes, b))}
        IN  /\ Len(rows) = Cardinality(emitted)
            /\ \A p \in 1..Len(rows) :
                  rows[p][5] >= processFilter \/ rows[p][6] >= processFilter
            /\ \A b \in emitted : \E p \in 1..Len(rows) :
                  /\ rows[p][10] = LastOf(processes, b)[11]
                  /\ rows[p][11] = Cardinality(Members(processes, b))
                  /\ b = kernel => rows[p][9] = kernel

\* two kernel threads folded into one emitted bucket, a third bucket dropped
KernelBucketWitness ==
    /\ Done("mapProcesses")
    /\ Len(args.data.processes) = 3
    /\ args.data.processes[1][11] = cmdK
    /\ args.data.processes[2][11] = cmdJ
    /\ args.data.processes[3][11] = cmdX
    /\ Len(ret.metrics[1].points) = 1
    /\ ret.metrics[1].points[1][9] = kernel
    /\ ret.metrics[1].points[1][11] = 2

(***************************************************************************)
(* mapMetrics                                                              *)
(***************************************************************************)
systemCpu == <<"s", "y", "s", "t", "e", "m", ".", "c", "p", "u">>
idle == <<"i", "d", "l", "e">>

CpuIdlePayload ==
    /\ pc = "done" /\ args.fn = "mapMetrics"
    /\ DOMAIN args.data \cap DOMAIN rootMetrics = {"cpuIdle"}
    /\ {"internalHostname", "collection_timestamp"} \subseteq DOMAIN args.data

\* C10: a payload with the one recognized root key cpuIdle = 93.5, a host
\* and a collection_timestamp yields from mapMetrics exactly one record named
\* system.cpu, with one row (timestamp in ms, host, idle = 93.5).
CpuIdleYieldsSystemCpu ==
    CpuIdlePayload =>
        /\ ~ret.panic
        /\ Cardinality({m \in 1..Len(ret.metrics) :
                           ret.metrics[m].name = systemCpu}) = 1
        /\ \A m \in 1..Len(ret.metrics) :
              ret.metrics[m].name = systemCpu =>
                  /\ ret.metrics[m].columns = <<time, hostname, idle>>
                  /\ ret.metrics[m].points
                        = <<<<Millis(args.data["collection_timestamp"]),
                              args.data["internalHostname"], cpuIdleValue>>>>

(***************************************************************************)
(* CreateDBIfNotExists                                                     *)
(***************************************************************************)
CountOf(name) == Cardinality({j \in 1..Len(containers) : containers[j] = name})

\* C9: after two calls in succession that the sink served, the sink has
\* exactly one container named dbName, the second call returned no error
\* and sent no create request; a call sends the create request only if its
\* listing did not contain dbName.
BootstrapIdempotent ==
    \A i \in Instances :
        /\ \A k \in 1..Len(boot[i].calls) :
              boot[i].calls[k].posted => ~boot[i].calls[k].found
        /\ \A k \in 1..(Len(boot[i].calls) - 1) :
              (~boot[i].calls[k].fault /\ ~boot[i].calls[k + 1].fault) =>
                  /\ CountOf(dbName) = 1
                  /\ boot[i].calls[k + 1].result = "nil"
                  /\ boot[i].calls[k + 1].found
                  /\ ~boot[i].calls[k + 1].posted

\* the first call created the database, the second found it
BootstrapWitness ==
    \E i \in Instances :
        /\ Len(boot[i].calls) = 2
        /\ boot[i].calls[1].posted /\ ~boot[i].calls[1].fault
        /\ boot[i].calls[1].result = "nil"
        /\ ~boot[i].calls[2].posted /\ boot[i].calls[2].result = "nil"
        /\ CountOf(dbName) = 1

(***************************************************************************)
(* handleIntake, handleApi: the acknowledgment                             *)
(***************************************************************************)
\* the request of h passed handleApiKey
Passed(h) ==
    conn[h].pc # "idle" /\ conn[h].req.name \notin {"status", "badform", "badkey"}

\* the requests whose body cannot be decompressed, read or decoded
Undecodable == {"zlib", "read", "json"}

\* C11: every request whose body decodes receives {"status":"ok"}, whatever
\* the mapping meets and whatever becomes of the forwarding; only a request
\* whose decoding fails is told of a failure.
DecodedIsAcknowledged ==
    \A h \in Handlers :
        (conn[h].pc = "done" /\ Passed(h)) =>
            /\ conn[h].req.name \notin Undecodable => conn[h].response = ok
            /\ conn[h].req.name \in Undecodable => conn[h].response = failed

\* C12: a request whose decompression, reading or decoding fails is answered
\* {"status":"failed"}; the mapper is never called for it, PushMetrics is
\* never started for it and no event of it is sent on eventsChan.
DecodeFailureStopsTheRequest ==
    \A h \in Handlers :
        (Passed(h) /\ conn[h].req.name \in Undecodable) =>
            /\ conn[h].pc = "done"
            /\ conn[h].response = failed
            /\ ~conn[h].mapped
            /\ conn[h].pending = <<>>
            /\ pushes[h] = "none"
            /\ posts[h] = 0
            /\ h \notin stored
            /\ \A i \in 1..Len(sent) : sent[i][1] # h

\* a request failed to decode, next to one that was mapped, sent its event
\* and had its PushMetrics started
DecodeFailureWitness ==
    \E h, g \in Handlers :
        /\ Passed(h) /\ conn[h].req.name \in Undecodable
        /\ conn[h].response = failed
        /\ conn[g].response = ok /\ conn[g].mapped
        /\ \E i \in 1..Len(sent) : sent[i][1] = g
        /\ pushes[g] # "none"

(***************************************************************************)
(* parseEvents, writeEvents: the channel                                   *)
(***************************************************************************)
\* the events of a sequence, as a set
EventsIn(s) == {s[i] : i \in 1..Len(s)}

\* C13: with concurrent handlers sending on the channel of capacity 5 and
\* the one writeEvents, no event is dropped or duplicated: the events handed
\* to the log append, followed by those still in the channel, are the events
\* sent, each once and in the order of the sends; the log holds the events
\* whose write succeeded in that order, so the events of one request and
\* source keep their order.
EventsHandedOnceInOrder ==
    /\ Len(eventsChan) <= eventsChanCap
    /\ writer.attempts \o eventsChan = sent
    /\ \A i, j \in 1..Len(sent) : i # j => sent[i] # sent[j]
    /\ eventLog = SelectSeq(writer.attempts,
                            LAMBDA e : e \notin EventsIn(writer.failed))
    /\ \A i, j \in 1..Len(eventLog) :
          (/\ i < j
           /\ eventLog[i][1] = eventLog[j][1]
           /\ eventLog[i][2] = eventLog[j][2]) => eventLog[i][3] < eventLog[j][3]

\* the channel was filled by two requests, every event sent was handed to
\* the append, and the log holds events of two requests, interleaved
EventsHandedWitness ==
    /\ Len(sent) > eventsChanCap
    /\ writer.attempts = sent
    /\ \E i \in 1..(Len(eventLog) - 2) :
          /\ eventLog[i][1] # eventLog[i + 1][1]
          /\ eventLog[i][1] = eventLog[i + 2][1]

\* C14: a handler that sends while the channel is full blocks, without
\* dropping the event and without responding; with writeEvents scheduled
\* fairly it is unblocked: every request that decoded and carries events
\* finishes parseEvents and is acknowledged.
BlockedSendIsAcknowledged ==
    /\ [](\A h \in Handlers :
            conn[h].pc = "send" =>
                /\ conn[h].response = ""
                /\ conn[h].pending # <<>>
                /\ Event(h, Head(conn[h].pending)) \notin EventsIn(sent))
    /\ \A h \in Handlers :
          (conn[h].pc = "send")
              ~> (conn[h].pc = "done" /\ conn[h].response = ok)

\* C15: PushMetrics submits each batch at most once: no request to the sink
\* for a batch of zero records, exactly one POST for a non-empty batch, and
\* whatever the sink answers, no retry and no effect on the handler, which
\* has acknowledged.
PushedExactlyOnce ==
    \A h \in Handlers :
        /\ posts[h] <= 1
        /\ pushes[h] # "none" => conn[h].response = ok
        /\ pushes[h] \notin {"none", "start"} =>
              /\ conn[h].batch.len = 0 => posts[h] = 0
              /\ conn[h].batch.len > 0 => posts[h] = 1

\* C16: two instances list the containers before either creates dbName and
\* both send the create request: the one whose request is answered with a
\* status other than 201 returns no error, as the other does, and the sink
\* has exactly one container named dbName.
ConcurrentCreateTolerated ==
    \A i, j \in Instances :
        \A k \in 1..Len(boot[i].calls), l \in 1..Len(boot[j].calls) :
            (/\ i # j
             /\ boot[i].calls[k].posted /\ ~boot[i].calls[k].fault
             /\ boot[j].calls[l].posted /\ ~boot[j].calls[l].fault) =>
                /\ boot[i].calls[k].result = "nil"
                /\ boot[j].calls[l].result = "nil"
                /\ CountOf(dbName) = 1

\* both instances sent the create request in their first call, neither had
\* dbName in its listing, and the sink served both
ConcurrentCreateWitness ==
    /\ CountOf(dbName) = 1
    /\ \A i \in Instances :
          /\ Len(boot[i].calls) = 1
          /\ boot[i].calls[1].posted
          /\ ~boot[i].calls[1].found
          /\ ~boot[i].calls[1].fault

(***************************************************************************)
(* mapProcesses: the row of a bucket                                       *)
(***************************************************************************)
\* the bucket of an output row, from its command
RowBucket(row) ==
    IF Len(row[10]) > 0 /\ row[10][1] = "[" THEN kernel ELSE row[10]

\* C17: the row of a bucket has the user, pid, pct_cpu, pct_mem, vsz, rss,
\* family and command of the last sample folded into the bucket, nothing is
\* summed over samples, ps_count is the number of samples folded, and a
\* bucket is emitted exactly when its last sample is at the threshold.
BucketRowIsLastSample ==
    Done("mapProcesses") =>
        LET processes == args.data.processes
            rows == ret.metrics[1].points
        IN  /\ \A p \in 1..Len(rows) :
                  LET b == RowBucket(rows[p])
                      last == LastOf(processes, b)
                  IN  /\ b \in Buckets(processes)
                      /\ rows[p][3] = last[1]
                      /\ rows[p][4] = ParseInt(last[2])
                      /\ rows[p][5] = ParseFloat(last[3])
                      /\ rows[p][6] = ParseFloat(last[4])
                      /\ rows[p][7] = ParseInt(last[5])
                      /\ rows[p][8] = ParseInt(last[6])
                      /\ rows[p][9] = (IF b = kernel /\ last[11] # kernel
                                       THEN kernel
                                       ELSE GetProcessFamily(last[11]))
                      /\ rows[p][10] = last[11]
                      /\ rows[p][11] = Cardinality(Members(processes, b))
            /\ \A b \in Buckets(processes) :
                  AtThreshold(LastOf(processes, b))
                      <=> \E p \in 1..Len(rows) : RowBucket(rows[p]) = b

\* the kernel bucket of two samples, whose first alone is at the cpu
\* threshold and whose last alone is at the memory threshold, is emitted
\* with the last pid and command and a count of two; a bucket whose last
\* sample is below both is dropped
BucketRowWitness ==
    /\ Done("mapProcesses")
    /\ Len(args.data.processes) = 3
    /\ args.data.processes[1][11] = cmdK
    /\ args.data.processes[1][3] = pctCpu[1]
    /\ args.data.processes[2][11] = cmdJ
    /\ args.data.processes[2][3] = pctMem[1]
    /\ args.data.processes[3][11] = cmdX
    /\ Len(ret.metrics[1].points) = 1
    /\ ret.metrics[1].points[1][4] = 2
    /\ ret.metrics[1].points[1][5] < processFilter
    /\ ret.metrics[1].points[1][10] = cmdJ
    /\ ret.metrics[1].points[1][11] = 2

(***************************************************************************)
(* mapStatsd: the 'hostname' tag                                           *)
(***************************************************************************)
TagKey(tag) == SplitN(tag, ":", 2)[1]

HostnameTags(metric) ==
    {t \in 1..Len(metric.Tags) : TagKey(metric.Tags[t]) = hostname}

\* the value of the last 'hostname' tag of a series
HostnameTagValue(metric) ==
    SplitN(metric.Tags[Nth(HostnameTags(metric),
                           Cardinality(HostnameTags(metric)))], ":", 2)[2]

\* the tag is not a column, and the rows are as wide as the columns
HostnameTagNoColumn(metric, record) ==
    /\ Len(record.columns) = 5 + Len(metric.Tags)
                                - Cardinality(HostnameTags(metric))
    /\ \A c \in 4..Len(record.columns) : record.columns[c] # hostname
    /\ \A p \in 1..Len(record.points) :
          Len(record.points[p]) = Len(record.columns)

\* the sticky host is the one of the series' own hosts: the rows of every
\* series without the tag are as if no series had the tag
StickyHostIgnoresTag ==
    \A j \in 1..Len(args.series) :
        (~HasHostnameTag(args.series[j])
            /\ \E i \in 1..Len(args.series) : HasHostnameTag(args.series[i])) =>
            \A p \in 1..Len(ret.metrics[j].points) :
                ret.metrics[j].points[p][3] =
                    IF StickyAt(args.series, j) # EmptyStr
                    THEN StickyAt(args.series, j)
                    ELSE StickyAt(args.series, Len(args.series))

FailedAt == {i \in 1..Len(writer.attempts) :
                writer.attempts[i] \in EventsIn(writer.failed)}

\* C19: a failed append does not stop writeEvents: after a write error the
\* loop is at its receive again, so whenever the channel holds an event the
\* receive can be taken, and the events sent after the failed one are
\* received and handed to the append in the order of the sends; the failed
\* event is handed to the append once and is neither put back into the
\* channel nor written later.
WriteErrorKeepsConsuming ==
    /\ eventsChan # <<>> => ENABLED writeEvents
    /\ \A i \in FailedAt :
          /\ \A j \in 1..Len(writer.attempts) :
                writer.attempts[j] = writer.attempts[i] => j = i
          /\ writer.attempts[i] \notin EventsIn(eventsChan)
          /\ writer.attempts[i] \notin EventsIn(eventLog)
          /\ \A j \in (i + 1)..Len(sent) :
                sent[j] = (writer.attempts \o eventsChan)[j]

\* the channel was filled, an append failed, and the event sent after the
\* failed one was received and written
WriteErrorWitness ==
    /\ Len(sent) > eventsChanCap
    /\ \E i \in FailedAt :
          /\ i < Len(writer.attempts)
          /\ writer.attempts[i + 1] = sent[i + 1]
          /\ writer.attempts[i + 1] \in EventsIn(eventLog)

====
